---- MODULE Spec2Model ----
(***************************************************************************)
(* Progressive-growing GAN training of mcschmitz/duck_and_cover.            *)
(*                                                                         *)
(* The state machines of this module:                                      *)
(*   Spec     the training driver, src/train/train_progan.py (__main__)    *)
(*   SpecGAN  the ProGAN object, src/networks/progan.py                     *)
(*   SpecStyleGAN, SpecCallback, SpecTruncation, SpecMinibatchStdDev,      *)
(*   SpecCollector, SpecLoader: the components named in their sections     *)
(* The driver calls a ProGAN whose methods take a block index              *)
(* (update_alpha(alpha, block), train_on_batch(images, block, fade, ...)); *)
(* that class is not among the sources, the ProGAN of progan.py has the    *)
(* single-model interface.  The driver's view of the object is therefore   *)
(* kept in its own variables (ganAlpha, lastTrain).                        *)
(***************************************************************************)
EXTENDS Integers, Sequences, FiniteSets, TLC

VARIABLES
    \* ---- training driver (train_progan.py) ----
    WARM_START,     \* module constant WARM_START, fixed for a run
    TRAIN_STEPS,    \* module constant TRAIN_STEPS, fixed for a run
    pc,             \* position of the driver in the script
    block,          \* loop variable of `for block in range(N_BLOCKS)`
    fadeIdx,        \* position of the iterator of `for fade in FADE`
    fade,           \* loop variable fade
    step,           \* loop variable step
    steps,          \* steps = TRAIN_STEPS // batch_size
    batch_size,     \* batch_size of the current block
    initial_iter,   \* initial_iter
    alphas,         \* the alpha schedule (a list that is popped from the front)
    alpha,          \* the driver's local alpha
    ganAlpha,       \* Weighted Sum state of the gan, per block
    images_shown,   \* gan.images_shown
    crash,          \* the exception that ended the run, "" if none
    \* history variables of the driver
    lastTrain,      \* arguments and alpha of the latest train_on_batch call
    phaseK,         \* gradient steps made in the current phase
    phases,         \* the phases whose step loop was entered, in order
    phaseEnded,     \* TRUE right after the step loop of a phase was left
    lastPopped,     \* the value taken by the latest alphas.pop(0)
    nEnded,         \* number of phases whose step loop was left
    phaseStart,     \* alphas and ganAlpha as they were when the phase began
    images,         \* images, kept as images.shape[0]
    batch_idx,      \* batch_idx between two steps: the start of the next window
    lastBatch,      \* the index list batch_idx of the latest step
    lastLoad,       \* the latest load_data call: what it found and returned
    \* ---- ProGAN object (progan.py) ----
    gan,            \* record of the object's fields, see InitGAN
    \* ---- data collection (collect_artist_data.py) ----
    collector,      \* SpotifyInfoCollector.get_genre_artists in progress
    \* ---- torch layers and modules (layers.py, stylegan.py) ----
    mbsd,           \* a MinibatchStdDev.forward call
    stylegan,       \* a StyleGANGenerator and its latest forward call
    truncation,     \* a Truncation layer updated on its own
    \* ---- data generator (spotify_data_loader.py) ----
    loader          \* a SpotifyDataGenerator and its latest batch

vars == <<WARM_START, TRAIN_STEPS, pc, block, fadeIdx, fade, step, steps,
          batch_size, initial_iter, alphas, alpha, ganAlpha, images_shown,
          crash, lastTrain, phaseK, phases, phaseEnded, lastPopped, nEnded,
          phaseStart, images, batch_idx, lastBatch, lastLoad, gan,
          collector, mbsd, stylegan, truncation, loader>>

driverVars == <<WARM_START, TRAIN_STEPS, pc, block, fadeIdx, fade, step, steps,
                batch_size, initial_iter, alphas, alpha, ganAlpha,
                images_shown, crash, lastTrain, phaseK, phases, phaseEnded,
                lastPopped, nEnded, phaseStart, images, batch_idx, lastBatch,
                lastLoad>>

dataVars == <<images, batch_idx, lastBatch, lastLoad>>

moreVars == <<truncation, loader>>

restVars == <<collector, mbsd, stylegan, moreVars>>

----------------------------------------------------------------------------
(* Bounds of the model *)

\* number of resolution blocks (6 in the script)
N_BLOCKS == 3
\* images per step at the lowest resolution (128 in the script)
BATCH_SIZE == 2
\* largest TRAIN_STEPS tried (10000 in the script)
MaxTrainSteps == 30
\* longest G_loss history a loaded checkpoint holds
MaxInitialIter == 4

(* Program constants *)
N_CRITIC == 1
MINIBATCH_REPS == 1
LogDivisor == 10

----------------------------------------------------------------------------
(* Rational numbers num/den with den > 0: the values of the alpha schedule *)

Frac(n, d) == [num |-> n, den |-> d]
FracEq(a, b) == a.num * b.den = b.num * a.den
FracLE(a, b) == a.num * b.den <= b.num * a.den
Zero == Frac(0, 1)
One == Frac(1, 1)

\* a linspace that leaves the end point out
linspace_noEndpoint(n) ==
    IF n <= 0 THEN << >> ELSE [i \in 1..n |-> Frac(i - 1, n)]

\* np.linspace(0, 1, n).tolist(): n evenly spaced values, the last one set to 1
\* when n > 1; a single value is the start, 0.
linspace(n) ==
    IF n <= 0 THEN << >>
    ELSE IF n = 1 THEN << Zero >>
    ELSE [i \in 1..n |-> Frac(i - 1, n - 1)]

RECURSIVE Pow2(_)
Pow2(n) == IF n <= 0 THEN 1 ELSE 2 * Pow2(n - 1)

\* RESOLUTIONS = 2 ** np.arange(2, N_BLOCKS + 2)
RESOLUTIONS(b) == Pow2(b + 2)

\* ACCUMULATIVE_UPDATES = {r: i for r, i in zip(RESOLUTIONS, [1, 1, 2, 4, 8, 16, 32])}
ACCUMULATIVE_UPDATES(b) == IF b <= 1 THEN 1 ELSE Pow2(b - 1)

FADE_swapped == << FALSE, TRUE >>

\* FADE = [True, False]
FADE == << TRUE, FALSE >>

\* a list popped at its end instead of its front
list_pop_last(l) == [value |-> l[Len(l)], rest |-> SubSeq(l, 1, Len(l) - 1)]

\* alphas.pop(0): the first element is taken and removed
list_pop0(l) == [value |-> Head(l), rest |-> Tail(l)]

----------------------------------------------------------------------------
(* The gan as the driver sees it *)

\* gan.update_alpha(alpha, block): writes the Weighted Sum state of the block
update_alpha_block(ga, a, b) == [ga EXCEPT ![b] = a]

\* the model variants one train_on_batch(images, block, fade, ...) call updates:
\* index 1 is the fade-in variant, index 0 the straight-through one
TrainedVariants(b, f) == { << b, IF f THEN 1 ELSE 0 >> }

TrainArgs_noFade(b, f) == [block |-> b, fade |-> FALSE]

\* the arguments of gan.train_on_batch(batch_images, block, fade, n_critic=N_CRITIC)
TrainArgs(b, f) == [block |-> b, fade |-> f]

NoTrain == [block |-> -1, fade |-> FALSE, alpha |-> Zero, k |-> 0,
            variants |-> {}, calls |-> 0]

----------------------------------------------------------------------------
(* The ProGAN object of progan.py.                                          *)
(*                                                                         *)
(* A Keras model is kept as its `layers` list.  A layer is a record: id is *)
(* the identity of the layer object, inp the ids of the layers whose       *)
(* output it is applied to in the model at hand, alpha the value of a      *)
(* WeightedSum layer's alpha variable.  A name Keras generates itself is   *)
(* written "".  Tensor shapes are not modelled.                            *)

\* bounds of the ProGAN model
MaxCycles == 2
MaxTrainCalls == 2
MaxBatch == 3
MaxCritic == 2

\* the layer names of progan.py that contain "removable"
RemovableNames ==
    {"to_rgb_removable", "upsampling_removable", "gen_weighted_sum_removable",
     "avg_pool_removable", "conv2d_removable", "lrelu_removable",
     "dist_weighted_sum_removable"}

\* "removable" in layer.name
Removable(l) == l.name \in RemovableNames

\* a new layer object applied to the outputs of the layers `inp`; both
\* WeightedSum layers are constructed with the same arguments (lines 256 and
\* 262) and so start with the same alpha, written 0 here
NewLayer(id, kind, name, inp) ==
    [id |-> id, kind |-> kind, name |-> name, inp |-> inp,
     alpha |-> Zero, trainable |-> TRUE]

K(kind) == [kind |-> kind, name |-> ""]
KN(kind, name) == [kind |-> kind, name |-> name]

\* new layers applied one after the other, the first one to `inp`
MakeChain(specs, firstId, inp) ==
    [i \in 1..Len(specs) |->
        NewLayer(firstId + i - 1, specs[i].kind, specs[i].name,
                 IF i = 1 THEN inp ELSE << firstId + i - 2 >>)]

\* existing layers applied one after the other, the first one to `inp`
Rewire(layers, inp) ==
    [i \in 1..Len(layers) |->
        [layers[i] EXCEPT !.inp = IF i = 1 THEN inp ELSE << layers[i - 1].id >>]]

Range(f) == { f[i] : i \in DOMAIN f }

Max(S) == CHOOSE x \in S : \A y \in S : y <= x

SeqFilterNotRemovable(layers) == SelectSeq(layers, LAMBDA l : ~Removable(l))

RECURSIVE Repeat(_, _)
Repeat(sq, n) == IF n <= 0 THEN << >> ELSE sq \o Repeat(sq, n - 1)

RECURSIVE Log2(_)
Log2(n) == IF n <= 1 THEN 0 ELSE 1 + Log2(n \div 2)

(* Model.layers of a functional Keras model: the layers the output is      *)
(* computed from, ordered by decreasing depth (the longest path to the     *)
(* output); layers of one depth in the order the graph traversal from the  *)
(* output meets them, a layer first and then its inputs from left to right *)

LayerById(S, i) == CHOOSE l \in S : l.id = i

RECURSIVE Traverse(_, _, _)
Traverse(S, stack, order) ==
    IF stack = << >> THEN order
    ELSE IF Head(stack) \in Range(order)
         THEN Traverse(S, Tail(stack), order)
         ELSE Traverse(S, LayerById(S, Head(stack)).inp \o Tail(stack),
                       Append(order, Head(stack)))

IndexIn(sq, x) == CHOOSE i \in DOMAIN sq : sq[i] = x

Max2(a, b) == IF a >= b THEN a ELSE b

\* the depth of every layer: the layers are taken once all the layers they
\* feed are done, the output first
RECURSIVE Depths(_, _, _, _)
Depths(S, queue, depth, waiting) ==
    IF queue = << >> THEN depth
    ELSE LET u == Head(queue)
             ins == Range(LayerById(S, u).inp)
             depth2 == [i \in DOMAIN depth |->
                           IF i \in ins THEN Max2(depth[i], depth[u] + 1)
                           ELSE depth[i]]
             waiting2 == [i \in DOMAIN waiting |->
                             IF i \in ins THEN waiting[i] - 1 ELSE waiting[i]]
             ready == SelectSeq(LayerById(S, u).inp,
                                LAMBDA i : waiting2[i] = 0)
         IN  Depths(S, Tail(queue) \o ready, depth2, waiting2)

\* the layers `order` (ids) sorted by decreasing depth, ties kept in order
RECURSIVE SortByDepth(_, _, _)
SortByDepth(order, depth, d) ==
    IF d < 0 THEN << >>
    ELSE SelectSeq(order, LAMBDA i : depth[i] = d) \o SortByDepth(order, depth, d - 1)

ModelLayers(S, out) ==
    LET order == Traverse(S, << out >>, << >>)
        ids == Range(order)
        nodes == { l \in S : l.id \in ids }
        depth == Depths(nodes, << out >>, [i \in ids |-> 0],
                        [i \in ids |->
                            Cardinality({ l \in nodes : i \in Range(l.inp) })])
        sorted == SortByDepth(order, depth, Max(Range(depth)))
    IN  [p \in DOMAIN sorted |-> LayerById(nodes, sorted[p])]

\* _build_generator
GenBaseSpecs ==
    << K("Input"), K("PixelNorm"), K("ScaledDense"), K("Reshape"),
       K("LeakyReLU"), K("PixelNorm"),
       K("ScaledConv2D"), K("LeakyReLU"), K("PixelNorm"),
       K("ScaledConv2D"), K("LeakyReLU"), K("PixelNorm") >>

GenBlockSpecs ==
    << K("UpSampling2D"),
       K("ScaledConv2D"), K("LeakyReLU"), K("PixelNorm"),
       K("ScaledConv2D"), K("LeakyReLU"), K("PixelNorm") >>

build_generator(res, firstId) ==
    MakeChain(GenBaseSpecs \o Repeat(GenBlockSpecs, Log2(res \div 4))
                  \o << KN("ScaledConv2D", "to_rgb_removable") >>,
              firstId, << >>)

\* _build_discriminator
DiscBlockSpecs(first) ==
    << KN("ScaledConv2D", IF first THEN "fuse_here" ELSE ""), K("LeakyReLU"),
       K("ScaledConv2D"), K("LeakyReLU"), K("AveragePooling2D") >>

DiscTailSpecs(res) ==
    << KN("MinibatchSd", IF res = 4 THEN "fuse_here" ELSE ""),
       K("ScaledConv2D"), K("LeakyReLU"),
       K("ScaledConv2D"), K("LeakyReLU"),
       K("Flatten"), K("ScaledDense") >>

build_discriminator(res, firstId) ==
    LET n == Log2(res \div 4) IN
    MakeChain(<< K("Input"), K("ScaledConv2D"), K("LeakyReLU") >>
                  \o (IF n = 0 THEN << >>
                      ELSE DiscBlockSpecs(TRUE) \o Repeat(DiscBlockSpecs(FALSE), n - 1))
                  \o DiscTailSpecs(res),
              firstId, << >>)

NoModel == [compiled |-> FALSE, optimizer |-> "None",
            genLayers |-> {}, discLayers |-> {}, trainable |-> {}]

EmptyHistory ==
    [D_loss |-> << >>, D_loss_positives |-> << >>, D_loss_negatives |-> << >>,
     D_loss_dummies |-> << >>, G_loss |-> << >>]

\* ProGAN.__init__
IdleGAN ==
    [built |-> FALSE, generator |-> << >>, discriminator |-> << >>,
     img_height |-> 0, history |-> EmptyHistory,
     discriminator_model |-> NoModel, combined_model |-> NoModel,
     nextId |-> 1,
     \* history fields
     cycles |-> 0, nCalls |-> 0, nCritic |-> 0, updates |-> << >>,
     lastOp |-> "init",
     buildArgs |-> [optimizer |-> "None", discriminator_optimizer |-> "None"],
     lastAlpha |-> Zero, lastArgs |-> [B |-> 0, n_critic |-> 0],
     fadeNewGen |-> << >>, fadeNewDisc |-> << >>]

SetTrainable(layers, flag) ==
    [i \in DOMAIN layers |-> [layers[i] EXCEPT !.trainable = flag]]

Ids(layers) == { layers[i].id : i \in DOMAIN layers }
TrainableIds(layers) == { layers[i].id : i \in { j \in DOMAIN layers : layers[j].trainable } }

\* what Model.compile fixes: the optimizer and which weights are trainable
Compile(g, opt) ==
    [compiled |-> TRUE, optimizer |-> opt,
     genLayers |-> Ids(g.generator), discLayers |-> Ids(g.discriminator),
     trainable |-> TrainableIds(g.generator) \cup TrainableIds(g.discriminator)]

\* build_models, lines 79-81
freeze_generator(g) ==
    [g EXCEPT !.generator = SetTrainable(g.generator, FALSE)]

freeze_discriminator_only(g) ==
    [g EXCEPT !.discriminator = SetTrainable(g.discriminator, FALSE)]

\* build_models, lines 84-89
freeze_discriminator(g) ==
    [g EXCEPT !.discriminator = SetTrainable(g.discriminator, FALSE),
              !.generator = SetTrainable(g.generator, TRUE)]

\* _build_discriminator_model(optimizer)
build_discriminator_model(g, opt) ==
    [g EXCEPT !.discriminator_model = Compile(g, opt)]

\* _build_combined_model(optimizer)
build_combined_model(g, opt) ==
    [g EXCEPT !.combined_model = Compile(g, opt)]

\* build_models(optimizer, discriminator_optimizer, image_resolution=res,
\*              compile_only=compile_only); res = 0 stands for None
build_models(g, optimizer, discriminator_optimizer, res, compile_only) ==
    LET height == IF res # 0 THEN res ELSE g.img_height
        dopt == IF discriminator_optimizer = "None" THEN optimizer
                ELSE discriminator_optimizer
        disc == build_discriminator(height, 1)
        gen == build_generator(height, 1 + Len(disc))
        args == [optimizer |-> optimizer,
                 discriminator_optimizer |-> discriminator_optimizer]
        g1 == IF compile_only THEN [g EXCEPT !.img_height = height,
                                             !.buildArgs = args]
              ELSE [g EXCEPT !.img_height = height,
                             !.buildArgs = args,
                             !.discriminator = disc,
                             !.generator = gen,
                             !.nextId = 1 + Len(disc) + Len(gen),
                             !.history = EmptyHistory,
                             !.built = TRUE]
        g2 == freeze_generator(g1)
        g3 == build_discriminator_model(g2, optimizer)
        g4 == freeze_discriminator(g3)
    IN  build_combined_model(g4, dopt)

\* slices that run one image into the next slice
critic_updates_overlapping(B, n_critic) ==
    LET bs == B \div n_critic IN
    [i \in 1..n_critic |->
        [kind |-> "D", lo |-> (i - 1) * bs, hi |-> ((i - 1) * bs) + bs + 1]]

\* the discriminator updates of train_on_batch, lines 224-226: update i trains
\* on real_images[i * batch_size : (i + 1) * batch_size]
critic_updates(B, n_critic) ==
    LET bs == B \div n_critic IN
    [i \in 1..n_critic |-> [kind |-> "D", lo |-> (i - 1) * bs, hi |-> i * bs]]

\* train_on_batch(real_images, n_critic) with B = real_images.shape[0]
train_on_batch(g, B, n_critic) ==
    LET bs == B \div n_critic
        call == g.nCalls + 1
        \* `losses` after the loop: those of the last discriminator update
        losses == [call |-> call, update |-> "D"]
        h == g.history
    IN  [g EXCEPT
            !.history =
                [D_loss |-> Append(h.D_loss, losses),
                 D_loss_positives |-> Append(h.D_loss_positives, losses),
                 D_loss_negatives |-> Append(h.D_loss_negatives, losses),
                 D_loss_dummies |-> Append(h.D_loss_dummies, losses),
                 G_loss |-> Append(h.G_loss, [call |-> call, update |-> "G"])],
            !.updates = critic_updates(B, n_critic)
                            \o << [kind |-> "G", lo |-> 0, hi |-> bs] >>,
            !.nCalls = call,
            !.nCritic = g.nCritic + n_critic]

LastLayer(layers) == layers[Len(layers)]

\* add_fade_in_layers, lines 254-257 (with _upsample_generator and
\* _add_fade_in_layer_to_generator)
add_fade_in_generator(layers, firstId) ==
    LET n == Len(layers)
        up == NewLayer(firstId, "UpSampling2D", "upsampling_removable",
                       << layers[n].id >>)
        new == MakeChain(GenBlockSpecs \o << K("ScaledConv2D") >>,
                         firstId + 1, << layers[n - 1].id >>)
        merged == NewLayer(firstId + 1 + Len(new), "WeightedSum",
                           "gen_weighted_sum_removable",
                           << up.id, LastLayer(new).id >>)
    IN  ModelLayers(Range(layers) \cup {up} \cup Range(new) \cup {merged},
                    merged.id)

\* the layers of the old discriminator applied to the Weighted Sum:
\* lines 263-268
FromFuseHere(layers) ==
    IF \E i \in DOMAIN layers : layers[i].name = "fuse_here"
    THEN SubSeq(layers,
                CHOOSE i \in DOMAIN layers :
                    /\ layers[i].name = "fuse_here"
                    /\ \A j \in 1..(i - 1) : layers[j].name # "fuse_here",
                Len(layers))
    ELSE << >>

DiscNewBlockSpecs ==
    << K("ScaledConv2D"), K("LeakyReLU"),
       K("ScaledConv2D"), K("LeakyReLU"),
       K("ScaledConv2D"), K("LeakyReLU"), K("AveragePooling2D") >>

\* add_fade_in_layers, lines 259-269 (with _downsample_discriminator and
\* _add_fade_in_layer_to_discriminator)
add_fade_in_discriminator(layers, firstId) ==
    LET image_input == NewLayer(firstId, "Input", "", << >>)
        pool == NewLayer(firstId + 1, "AveragePooling2D", "avg_pool_removable",
                         << image_input.id >>)
        scaled_conv2d == [layers[2] EXCEPT !.name = "conv2d_removable",
                                           !.inp = << pool.id >>]
        lrelu == [layers[3] EXCEPT !.name = "lrelu_removable",
                                   !.inp = << scaled_conv2d.id >>]
        new == MakeChain(DiscNewBlockSpecs, firstId + 2, << image_input.id >>)
        x == NewLayer(firstId + 2 + Len(new), "WeightedSum",
                      "dist_weighted_sum_removable",
                      << lrelu.id, LastLayer(new).id >>)
        \* the renaming of layers[1] and layers[2] is seen by the loop
        renamed == [i \in DOMAIN layers |->
                       IF i = 2 THEN scaled_conv2d
                       ELSE IF i = 3 THEN lrelu ELSE layers[i]]
        tail == Rewire(FromFuseHere(renamed), << x.id >>)
        out == IF tail = << >> THEN x.id ELSE LastLayer(tail).id
    IN  ModelLayers({image_input, pool, scaled_conv2d, lrelu, x}
                        \cup Range(new) \cup Range(tail),
                    out)

\* add_fade_in_layers(target_resolution)
add_fade_in_layers(g, target_resolution) ==
    LET gen == add_fade_in_generator(g.generator, g.nextId)
        genNew == Len(GenBlockSpecs) + 3
        disc == add_fade_in_discriminator(g.discriminator, g.nextId + genNew)
    IN  [g EXCEPT !.generator = gen,
                  !.discriminator = disc,
                  !.nextId = g.nextId + genNew + Len(DiscNewBlockSpecs) + 3,
                  !.img_height = target_resolution]

update_alpha_layers(layers, a) ==
    [i \in DOMAIN layers |->
        IF layers[i].kind = "WeightedSum"
        THEN [layers[i] EXCEPT !.alpha = a] ELSE layers[i]]

update_alpha_generatorOnly(g, a) ==
    [g EXCEPT !.generator = update_alpha_layers(g.generator, a)]

\* update_alpha(alpha): the nested generator and discriminator are the only
\* layers of discriminator_model and combined_model, no WeightedSum among them
update_alpha(g, a) ==
    [g EXCEPT !.generator = update_alpha_layers(g.generator, a),
              !.discriminator = update_alpha_layers(g.discriminator, a)]

\* _remove_fade_in_layer_from_generator / _remove_fade_in_layer_from_discriminator:
\* every layer after the input whose name does not contain "removable" is
\* applied to the output of the one before, in the order of Model.layers
remove_fade_in_layer(layers) ==
    << layers[1] >>
        \o Rewire(SeqFilterNotRemovable(Tail(layers)), << layers[1].id >>)

\* remove_fade_in_layers()
remove_fade_in_layers(g) ==
    [g EXCEPT !.generator = remove_fade_in_layer(g.generator),
              !.discriminator = remove_fade_in_layer(g.discriminator)]

HasWeightedSum(layers) == \E i \in DOMAIN layers : layers[i].kind = "WeightedSum"

\* the layers the output is computed from when every Weighted Sum passes its
\* second input (the new path) on: ids, from the input to the output
RECURSIVE PathBack(_, _, _)
PathBack(S, i, acc) ==
    LET l == LayerById(S, i) IN
    IF l.kind = "WeightedSum" THEN PathBack(S, l.inp[2], acc)
    ELSE IF l.inp = << >> THEN << i >> \o acc
    ELSE PathBack(S, l.inp[1], << i >> \o acc)

NewPath(layers) == PathBack(Range(layers), LastLayer(layers).id, << >>)

IdSeq(layers) == [i \in DOMAIN layers |-> layers[i].id]

\* history fields that describe the latest call only
Note(g, op) ==
    [g EXCEPT !.lastOp = op, !.updates = << >>, !.lastAlpha = Zero,
              !.lastArgs = [B |-> 0, n_critic |-> 0]]

----------------------------------------------------------------------------
(* The image data of the driver: load_data of utils.py and the batch window *)

\* number of images of the data set
MaxImages == 3

\* what load_data finds: whether all<size>.npy exists, whether its size is
\* below 80% of the system memory, whether preallocating raises MemoryError,
\* and how many images there are
LoadEnvs ==
    { [np_path_exists |-> TRUE, fits |-> TRUE, memory_error |-> FALSE, n |-> n]
          : n \in 1..MaxImages }
    \cup { [np_path_exists |-> TRUE, fits |-> FALSE, memory_error |-> FALSE, n |-> n]
          : n \in 1..MaxImages }
    \cup { [np_path_exists |-> FALSE, fits |-> TRUE, memory_error |-> me, n |-> n]
          : me \in BOOLEAN, n \in 1..MaxImages }

\* a function that ends without a return statement returns None
ReturnsNone == [none |-> TRUE, shape0 |-> 0]

\* return images, img_idx
ReturnsImages(n) == [none |-> FALSE, shape0 |-> n]

\* load_data(path, size)
load_data(env) ==
    IF env.np_path_exists /\ env.fits THEN ReturnsImages(env.n)
    ELSE IF env.np_path_exists THEN ReturnsNone
    ELSE IF env.memory_error THEN ReturnsNone
    ELSE ReturnsImages(env.n)

NoLoad == [env |-> [np_path_exists |-> FALSE, fits |-> FALSE,
                    memory_error |-> FALSE, n |-> 0],
           result |-> ReturnsNone, called |-> FALSE]

\* lines 75-78: the index list of a step, indices past the end moved to the
\* beginning
BatchWindow(start, minibatch_size, n) ==
    [j \in 1..minibatch_size |->
        LET i == start + j - 1 IN IF i < n THEN i ELSE i - n]

\* line 79: 0 in batch_idx and images.shape[0] in batch_idx
ShuffleCondition(idx, n) ==
    (\E j \in DOMAIN idx : idx[j] = 0) /\ (\E j \in DOMAIN idx : idx[j] = n)

NoBatch == [idx |-> << >>, start |-> 0, shuffled |-> FALSE]

IdleData ==
    /\ images = 0
    /\ batch_idx = 0
    /\ lastBatch = NoBatch
    /\ lastLoad = NoLoad

----------------------------------------------------------------------------
(* Components checked on their own *)

----------------------------------------------------------------------------
(* SpotifyInfoCollector of collect_artist_data.py.  A token is the number   *)
(* under which the authorisation server issued it; a session is kept as the  *)
(* token it was built with.                                                   *)

\* bounds of the collection
MaxGenres == 2
MaxTokens == 3
MaxArtistId == 2

ArtistIds == 1..MaxArtistId

\* line 100: if idx % 100 == 0
SessionRefreshEvery == 100

\* values of save_on: the default of the signature and every iteration
SaveOnValues == { 1, 100 }

\* the lists a search can return
ResultLists == { << >> } \cup { << a >> : a \in ArtistIds }
                   \cup { << a, b >> : a \in ArtistIds, b \in ArtistIds }

NoApiCall == [kind |-> "none", attempts |-> << >>, issuedBefore |-> 0]

\* no collector constructed yet
IdleCollector ==
    [pc |-> "new", issued |-> 0, token |-> 0, session |-> 0, genres |-> 0,
     idx |-> 0, save_on |-> 0, results |-> << >>, artists |-> {},
     remaining_genres |-> 0, call |-> NoApiCall]

\* generate_new_token: the server issues a token it has not issued before
generate_new_token(self) == self.issued + 1

\* a session that keeps the credentials it already has
generate_spotify_session_stale(self) == self.session

\* generate_spotify_session: spotipy.Spotify(self.token)
generate_spotify_session(self) == self.token

\* try: the call / except: new token, new session, the call again (outside
\* the try, so its exception leaves get_genre_artists)
api_call(self, kind, raises1, raises2) ==
    LET first == [token |-> self.session, raised |-> raises1]
    IN  IF ~raises1
        THEN [self EXCEPT !.call = [kind |-> kind, attempts |-> << first >>,
                                    issuedBefore |-> self.issued]]
        ELSE LET tok == generate_new_token(self)
                 s1 == [self EXCEPT !.token = tok, !.issued = tok]
                 s2 == [s1 EXCEPT !.session = generate_spotify_session(s1)]
                 second == [token |-> s2.session, raised |-> raises2]
             IN  [s2 EXCEPT !.call = [kind |-> kind,
                                      attempts |-> << first, second >>,
                                      issuedBefore |-> self.issued],
                            !.pc = IF raises2 THEN "raised" ELSE @]

----------------------------------------------------------------------------
(* MinibatchStdDev of layers.py.  A tensor is kept as its shape.             *)

\* bounds of the inputs of MinibatchStdDev
MaxStdBatch == 6
MaxStdChannels == 4
MaxStdGroup == 4
MaxStdFeatures == 2
MaxStdSize == 2

RECURSIVE Product(_)
Product(shape) == IF shape = << >> THEN 1 ELSE Head(shape) * Product(Tail(shape))

Min2(a, b) == IF a < b THEN a ELSE b

Raised == [ok |-> FALSE, shape |-> << >>]
Tensor(shape) == [ok |-> TRUE, shape |-> shape]

\* x.reshape(shape) with at most one entry -1 (written -1 here too): the
\* missing size is the number of elements divided by the product of the other
\* sizes; RuntimeError if that is no whole number or the product is 0
reshape(x, shape) ==
    LET free == { i \in DOMAIN shape : shape[i] = -1 }
        known == Product([i \in DOMAIN shape |-> IF i \in free THEN 1 ELSE shape[i]])
        total == Product(x.shape)
    IN  IF ~x.ok THEN Raised
        ELSE IF free = {}
             THEN IF known = total THEN Tensor(shape) ELSE Raised
        ELSE IF known = 0 \/ total % known # 0 THEN Raised
        ELSE Tensor([i \in DOMAIN shape |->
                        IF i \in free THEN total \div known ELSE shape[i]])

\* y.mean(dims, keepdim=True): the dimensions in dims (counted from 0) get size 1
mean_keepdim(y, dims) ==
    IF ~y.ok THEN Raised
    ELSE Tensor([i \in DOMAIN y.shape |-> IF (i - 1) \in dims THEN 1 ELSE y.shape[i]])

\* y.squeeze(dim): the dimension is removed if its size is 1
squeeze(y, dim) ==
    IF ~y.ok THEN Raised
    ELSE IF y.shape[dim + 1] # 1 THEN y
    ELSE Tensor([i \in 1..(Len(y.shape) - 1) |->
                    IF i <= dim THEN y.shape[i] ELSE y.shape[i + 1]])

\* y.expand(sizes): -1 keeps a size, a size-1 dimension is repeated, any other
\* mismatch is a RuntimeError
expand(y, sizes) ==
    IF ~y.ok \/ Len(sizes) # Len(y.shape) THEN Raised
    ELSE IF \E i \in DOMAIN sizes :
               sizes[i] # -1 /\ y.shape[i] # 1 /\ y.shape[i] # sizes[i]
         THEN Raised
    ELSE Tensor([i \in DOMAIN sizes |->
                    IF sizes[i] = -1 THEN y.shape[i] ELSE sizes[i]])

\* torch.cat([x, y], dim=1) of two 4-dimensional tensors
cat1(x, y) ==
    IF ~x.ok \/ ~y.ok THEN Raised
    ELSE IF \E i \in {1, 3, 4} : x.shape[i] # y.shape[i] THEN Raised
    ELSE Tensor(<< x.shape[1], x.shape[2] + y.shape[2], x.shape[3], x.shape[4] >>)

\* line 24: group_size = min(self.group_size, b)
forward_group_size(group_size, b) == Min2(group_size, b)

\* MinibatchStdDev.forward(x) for x of shape (b, c, h, w)
MinibatchStdDev_forward(self_group_size, num_new_features, xshape) ==
    LET b == xshape[1]
        c == xshape[2]
        h == xshape[3]
        w == xshape[4]
        x == Tensor(xshape)
        group_size == forward_group_size(self_group_size, b)
        y1 == reshape(x, << group_size, -1, num_new_features,
                            c \div num_new_features, h, w >>)
        \* y - y.mean(0), (y ** 2).mean(0), (y + 1e-8) ** 0.5
        y2 == mean_keepdim(y1, {0})
        y3 == squeeze(mean_keepdim(y2, {3, 4, 5}), 3)
        y4 == reshape(expand(y3, << group_size, -1, -1, h, w >>),
                      << b, num_new_features, h, w >>)
    IN  cat1(x, y4)

\* no MinibatchStdDev constructed yet
IdleMinibatchStdDev ==
    [pc |-> "new", group_size |-> 0, num_new_features |-> 0,
     x |-> << >>, z |-> Raised, called |-> FALSE]

----------------------------------------------------------------------------
(* StyleGANGenerator of stylegan.py with the Truncation layer of layers.py.   *)
(*                                                                         *)
(* A latent vector is kept as one of its components and a batch as one of  *)
(* its samples, both exact rationals.  A feature map or image is kept as   *)
(* the term that computes it: which module was applied to which input with *)
(* which styles.  An image that is a weighted sum is kept as the list of   *)
(* its weighted terms.                                                     *)

\* bounds of the StyleGAN model
MaxStyleBlocks == 4
MaxAvgUpdates == 1

\* Truncation(avg_latent=zeros, max_layer=8, threshold=0.7, beta=0.995)
TruncationMaxLayer == 8

RECURSIVE GCD(_, _)
GCD(a, b) == IF b = 0 THEN a ELSE GCD(b, a % b)

Abs(n) == IF n < 0 THEN -n ELSE n

\* the rational n / d in lowest terms, d > 0
Q(n, d) ==
    LET g == GCD(Abs(n), d) IN
    IF g = 0 THEN [num |-> 0, den |-> 1] ELSE [num |-> n \div g, den |-> d \div g]

QAdd(a, b) ==
    LET l == (a.den \div GCD(a.den, b.den)) * b.den
    IN  Q(a.num * (l \div a.den) + b.num * (l \div b.den), l)

QNeg(a) == [num |-> -a.num, den |-> a.den]
QSub(a, b) == QAdd(a, QNeg(b))

\* the factors are reduced crosswise before they are multiplied
QMul(a, b) ==
    LET g1 == GCD(Abs(a.num), b.den)
        g2 == GCD(Abs(b.num), a.den)
        n1 == IF g1 = 0 THEN 0 ELSE a.num \div g1
        d2 == IF g1 = 0 THEN 1 ELSE b.den \div g1
        n2 == IF g2 = 0 THEN 0 ELSE b.num \div g2
        d1 == IF g2 = 0 THEN 1 ELSE a.den \div g2
    IN  Q(n1 * n2, d1 * d2)

TruncationThreshold == Q(7, 10)
TruncationBeta == Q(995, 1000)

\* torch.lerp(start, end, weight) = start + weight * (end - start)
lerp(start, end, weight) == QAdd(start, QMul(weight, QSub(end, start)))

\* an update that weighs the two vectors the other way round
update_swapped(beta, avg_latent, last_avg) ==
    QAdd(QMul(beta, last_avg), QMul(QSub(Q(1, 1), beta), avg_latent))

\* Truncation.update(last_avg) of a layer built with beta:
\* self.beta * self.avg_latent + (1.0 - self.beta) * last_avg
update(beta, avg_latent, last_avg) ==
    QAdd(QMul(beta, avg_latent), QMul(QSub(Q(1, 1), beta), last_avg))

\* Truncation.update(last_avg) of the layer of the generator
Truncation_update(avg_latent, last_avg) ==
    update(TruncationBeta, avg_latent, last_avg)

\* Truncation.forward(x): layer i (counted from 0) is interpolated when
\* i < max_layer and passed through otherwise
Truncation_forward(avg_latent, x) ==
    [i \in DOMAIN x |->
        IF i - 1 < TruncationMaxLayer
        THEN lerp(avg_latent, x[i], TruncationThreshold)
        ELSE x[i]]

\* broadcast_dim = (n_blocks + 2) * 2 - 2
broadcast_dim(n_blocks) == (n_blocks + 2) * 2 - 2

\* StyleGANMappingNetwork.forward: one vector, expanded to every layer
g_mapping(m, n_blocks) == [i \in 1..broadcast_dim(n_blocks) |-> Q(m, 1)]

\* torch.where(layer_idx < mixing_cutoff, w_orig, w_rand)
style_mixing(w_orig, w_rand, mixing_cutoff) ==
    [i \in DOMAIN w_orig |->
        IF i - 1 < mixing_cutoff THEN w_orig[i] ELSE w_rand[i]]

\* a module applied to an input: module `op` number i, applied to the term in
\* arg (none for the initial block) with the styles w
Apply(op, i, arg, w) == [op |-> op, i |-> i, arg |-> arg, w |-> w]

\* w[:, lo:hi] along the layer axis
Styles(w, lo, hi) ==
    [j \in 1..(hi - lo) |-> w[lo + j]]

\* lines 302-307: x after the first k general blocks, and `upscaled`, the
\* input of the k-th of them
RECURSIVE SynthesisX(_, _)
RECURSIVE SynthesisUpscaled(_, _)
SynthesisX(w, k) ==
    IF k = 0
    THEN Apply("initial_block", 0, << >>, Styles(w, 0, 2))
    ELSE Apply("pro_blocks", k - 1, << SynthesisUpscaled(w, k) >>,
               Styles(w, 2 * k, 2 * k + 2))

SynthesisUpscaled(w, k) == Apply("upsample", 0, << SynthesisX(w, k - 1) >>, << >>)

\* the modules evaluated by the first k general blocks, in order
RECURSIVE SynthesisEvaluated(_)
SynthesisEvaluated(k) ==
    IF k = 0 THEN << "initial_block" >>
    ELSE SynthesisEvaluated(k - 1) \o << "upsample", "pro_blocks" >>

\* a single image with weight 1
Image(term) == << [coef |-> Q(1, 1), img |-> term] >>

\* a weighted sum that gives the new image the weight of the old one
WeightedImage_swapped(a, straight, residual) ==
    << [coef |-> a, img |-> residual],
       [coef |-> QSub(Q(1, 1), a), img |-> straight] >>

\* line 310: (alpha * straight) + ((1 - alpha) * residual), a = alpha
WeightedImage(a, straight, residual) ==
    << [coef |-> a, img |-> straight],
       [coef |-> QSub(Q(1, 1), a), img |-> residual] >>

NoImage == << >>

\* line 298: if block > self.n_blocks
forward_guard(blk, n_blocks) == blk > n_blocks

\* StyleGANSynthesis.forward(w, block, alpha) of a network built with
\* n_blocks: to_rgb has n_blocks modules, pro_blocks n_blocks general blocks
\* followed by one more convolution
Synthesis_forward(n_blocks, w, blk, a) ==
    IF forward_guard(blk, n_blocks)
    THEN [outcome |-> "ValueError", evaluated |-> << >>, image |-> NoImage,
          straight |-> NoImage, residual |-> NoImage]
    ELSE LET x == SynthesisX(w, blk)
             ev == SynthesisEvaluated(blk)
         IN  IF blk = 0
             THEN [outcome |-> "returned", evaluated |-> ev \o << "to_rgb" >>,
                   image |-> Image(Apply("to_rgb", 0, << x >>, << >>)),
                   straight |-> NoImage, residual |-> NoImage]
             ELSE IF blk > n_blocks - 1
             THEN \* self.to_rgb[block] is past the end of the ModuleList
                  [outcome |-> "IndexError", evaluated |-> ev \o << "to_rgb" >>,
                   image |-> NoImage, straight |-> NoImage, residual |-> NoImage]
             ELSE LET residual == Apply("to_rgb", blk - 1,
                                        << SynthesisUpscaled(w, blk) >>, << >>)
                      straight == Apply("to_rgb", blk, << x >>, << >>)
                  IN  [outcome |-> "returned",
                       evaluated |-> ev \o << "to_rgb", "to_rgb" >>,
                       image |-> WeightedImage(a, straight, residual),
                       straight |-> Image(straight),
                       residual |-> Image(residual)]

\* StyleGANGenerator.forward, lines 354-369: the styles handed to the synthesis
\* network; avg_latent is the average after the update of line 355
forward_styles(training, avg_latent, w_orig, w_rand, mixing_cutoff) ==
    IF training
    THEN Truncation_forward(avg_latent,
                            style_mixing(w_orig, w_rand, mixing_cutoff))
    ELSE w_orig

NoCall == [entry |-> "none", block |-> 0, alpha |-> Q(0, 1), training |-> FALSE,
           w_orig |-> << >>, w |-> << >>, avg_before |-> Q(0, 1),
           result |-> [outcome |-> "none", evaluated |-> << >>,
                       image |-> NoImage, straight |-> NoImage,
                       residual |-> NoImage]]

\* no StyleGANGenerator constructed yet
IdleStyleGAN ==
    [pc |-> "new", n_blocks |-> 0, training |-> FALSE, avg_latent |-> Q(0, 1),
     nUpdates |-> 0, last |-> NoCall]

----------------------------------------------------------------------------
(* A Truncation layer of layers.py on its own *)

\* bound of the number of update calls
MaxUpdates == 3

\* beta of the constructor
Betas == { Q(0, 1), Q(1, 2), Q(1, 1) }

\* components of avg_latent at construction and of the vectors handed to update
AvgValues == { Q(0, 1), Q(1, 1) }
LastAvgValues == { Q(-1, 1), Q(2, 1), Q(3, 1) }

\* no Truncation constructed yet
IdleTruncation ==
    [pc |-> "new", beta |-> Q(0, 1), initial |-> Q(0, 1),
     avg_latent |-> Q(0, 1), last_avg |-> Q(0, 1), nUpdates |-> 0]

----------------------------------------------------------------------------
(* SpotifyDataGenerator of spotify_data_loader.py.  A row of the meta data   *)
(* frame is kept as its index label and the number of the record it was     *)
(* read from; a file path and a release year are kept as the number of the  *)
(* record they belong to.                                                   *)

\* bounds of the data generator
MaxRows == 3
MaxLoaderBatch == 3

\* a record of the meta data: complete, or without a file path, or without a
\* release year
RowKinds == { "complete", "no_file", "no_release" }

\* pd.read_json(...): the records in file order, labelled 0, 1, 2, ...
read_json(kinds) ==
    [i \in DOMAIN kinds |-> [label |-> i - 1, row |-> i, kind |-> kinds[i]]]

MetaFrames == { read_json(kinds) : kinds \in [1..MaxRows -> RowKinds] }

\* df.dropna(subset=...): the rows keep their labels
dropna(df, missing) == SelectSeq(df, LAMBDA r : r.kind # missing)

Perms(n) ==
    { f \in [1..n -> 1..n] : \A i \in 1..n : \A j \in 1..n : f[i] = f[j] => i = j }

\* df.sample(frac=1): the rows in another order, each with its label
sample(df, perm) == [i \in DOMAIN df |-> df[perm[i]]]

\* a frame that keeps the labels it has
reset_index_keep(df) == df

\* df.reset_index(drop=True): the rows are labelled by their position
reset_index(df) == [i \in DOMAIN df |-> [df[i] EXCEPT !.label = i - 1]]

\* df[column].to_list()
to_list(df) == [i \in DOMAIN df |-> df[i].row]

\* files[b_idx] of a Python list; 0 stands for IndexError
list_at(files, b_idx) ==
    IF b_idx < Len(files) THEN files[b_idx + 1] ELSE 0

\* df[column][b_idx] of a column with integer labels: the row labelled b_idx;
\* 0 stands for KeyError
series_at(df, b_idx) ==
    IF \E i \in DOMAIN df : df[i].label = b_idx
    THEN df[CHOOSE i \in DOMAIN df : df[i].label = b_idx].row
    ELSE 0

\* a cursor that moves behind the batch
next_iterator_behind(idx) == idx[Len(idx)] + 1

\* line 78: self._iterator_i = batch_idx[-1]
next_iterator(idx) == idx[Len(idx)]

\* _get_batch_idx, lines 87-92
get_batch_idx(iterator_i, batch_size_, n_images) ==
    [j \in 1..batch_size_ |->
        LET i == iterator_i + j - 1 IN
        IF i < n_images THEN i ELSE i - n_images]

\* _get_batch_idx, line 93: if 0 in batch_idx
will_shuffle(idx) == \E j \in DOMAIN idx : idx[j] = 0

NoBatchYet ==
    [called |-> FALSE, start |-> 0, batch_idx |-> << >>, shuffled |-> FALSE,
     files |-> << >>, years |-> << >>, raised |-> FALSE,
     hadPrev |-> FALSE, prev_idx |-> << >>]

\* no SpotifyDataGenerator constructed yet
IdleLoader ==
    [pc |-> "new", meta_df |-> << >>, files |-> << >>, n_images |-> 0,
     batch_size |-> 0, return_release_year |-> FALSE, iterator_i |-> 0,
     dropped |-> FALSE, last |-> NoBatchYet]

\* SpotifyDataGenerator.__init__
SpotifyDataGenerator_init(meta_df, batch_size_, return_release_year) ==
    LET df1 == dropna(meta_df, "no_file")
        df2 == IF return_release_year THEN dropna(df1, "no_release") ELSE df1
    IN  [pc |-> "built", meta_df |-> df2, files |-> to_list(df2),
         n_images |-> Len(df2), batch_size |-> batch_size_,
         return_release_year |-> return_release_year, iterator_i |-> 0,
         dropped |-> Len(df2) < Len(meta_df), last |-> NoBatchYet]

\* SpotifyDataGenerator.__getitem__ (with _get_batch_idx); perm is the order
\* sample(frac=1) draws if the batch reshuffles
getitem(self, perm) ==
    LET idx == get_batch_idx(self.iterator_i, self.batch_size, self.n_images)
        shuffle == will_shuffle(idx)
        df == IF shuffle THEN reset_index(sample(self.meta_df, perm))
              ELSE self.meta_df
        files == IF shuffle THEN to_list(df) ELSE self.files
        read == [j \in DOMAIN idx |-> list_at(files, idx[j])]
        years == IF self.return_release_year
                 THEN [j \in DOMAIN idx |-> series_at(df, idx[j])]
                 ELSE << >>
        raised == \/ \E j \in DOMAIN read : read[j] = 0
                  \/ \E j \in DOMAIN years : years[j] = 0
    IN  [self EXCEPT
            !.meta_df = df,
            !.files = files,
            !.iterator_i = IF raised THEN @ ELSE next_iterator(idx),
            !.last = [called |-> TRUE, start |-> self.iterator_i,
                      batch_idx |-> idx, shuffled |-> shuffle,
                      files |-> read, years |-> years, raised |-> raised,
                      hadPrev |-> self.last.called /\ ~self.last.raised,
                      prev_idx |-> self.last.batch_idx]]

IdleRest ==
    /\ collector = IdleCollector
    /\ mbsd = IdleMinibatchStdDev
    /\ stylegan = IdleStyleGAN
    /\ truncation = IdleTruncation
    /\ loader = IdleLoader

----------------------------------------------------------------------------
(* Calls on the ProGAN object, in the order its class documentation gives: *)
(* build, then burn-in and fade-in phases in turn, the models recompiled   *)
(* at will.                                                                *)

AlphaValues == { Zero, Frac(1, 2), One }
InitResolutions == { 4, 8 }

IdleDriver ==
    /\ WARM_START = FALSE
    /\ TRAIN_STEPS = 0
    /\ pc = "idle"
    /\ block = 0
    /\ fadeIdx = 1
    /\ fade = FALSE
    /\ step = 0
    /\ steps = 0
    /\ batch_size = 0
    /\ initial_iter = 0
    /\ alphas = << >>
    /\ alpha = Zero
    /\ ganAlpha = [b \in 0..(N_BLOCKS - 1) |-> Zero]
    /\ images_shown = 0
    /\ crash = ""
    /\ lastTrain = NoTrain
    /\ phaseK = 0
    /\ phases = << >>
    /\ phaseEnded = FALSE
    /\ lastPopped = Zero
    /\ nEnded = 0
    /\ phaseStart = [alphas |-> << >>,
                     ganAlpha |-> [b \in 0..(N_BLOCKS - 1) |-> Zero]]
    /\ IdleData

InitGAN == IdleDriver /\ gan = IdleGAN /\ IdleRest

\* gan.build_models(optimizer, discriminator_optimizer, image_resolution=res)
BuildModels ==
    /\ pc = "idle"
    /\ \E res \in InitResolutions, dopt \in {"None", "disc_optimizer"} :
           gan' = [Note(build_models(gan, "optimizer", dopt, res, FALSE),
                        "build_models")
                      EXCEPT !.cycles = 0, !.nCalls = 0, !.nCritic = 0,
                             !.fadeNewGen = << >>, !.fadeNewDisc = << >>]
    /\ UNCHANGED <<driverVars, restVars>>

\* gan.build_models(optimizer, discriminator_optimizer, compile_only=True)
CompileOnly ==
    /\ pc = "idle"
    /\ gan.built
    /\ \E dopt \in {"None", "disc_optimizer"} :
           gan' = Note(build_models(gan, "optimizer", dopt, 0, TRUE),
                       "compile_only")
    /\ UNCHANGED <<driverVars, restVars>>

\* gan.add_fade_in_layers(target_resolution) on a model without fade-in layers
AddFadeInLayers ==
    /\ pc = "idle"
    /\ gan.built
    /\ ~HasWeightedSum(gan.generator)
    /\ gan.cycles < MaxCycles
    /\ gan' = [Note(add_fade_in_layers(gan, 2 * gan.img_height),
                    "add_fade_in_layers")
                  EXCEPT !.cycles = gan.cycles + 1]
    /\ UNCHANGED <<driverVars, restVars>>

\* gan.update_alpha(a) during a fade-in phase
UpdateAlpha ==
    /\ pc = "idle"
    /\ gan.built
    /\ HasWeightedSum(gan.generator)
    /\ \E a \in AlphaValues :
           gan' = [Note(update_alpha(gan, a), "update_alpha")
                      EXCEPT !.lastAlpha = a]
    /\ UNCHANGED <<driverVars, restVars>>

\* gan.remove_fade_in_layers() at the end of a fade-in phase
RemoveFadeInLayers ==
    /\ pc = "idle"
    /\ gan.built
    /\ HasWeightedSum(gan.generator)
    /\ gan' = [Note(remove_fade_in_layers(gan), "remove_fade_in_layers")
                  EXCEPT !.fadeNewGen = NewPath(gan.generator),
                         !.fadeNewDisc = NewPath(gan.discriminator)]
    /\ UNCHANGED <<driverVars, restVars>>

\* gan.train_on_batch(real_images, n_critic)
TrainOnBatch ==
    /\ pc = "idle"
    /\ gan.built
    /\ gan.nCalls < MaxTrainCalls
    /\ \E B \in 1..MaxBatch, n_critic \in 1..MaxCritic :
           gan' = [train_on_batch(gan, B, n_critic)
                      EXCEPT !.lastOp = "train_on_batch", !.lastAlpha = Zero,
                             !.lastArgs = [B |-> B, n_critic |-> n_critic]]
    /\ UNCHANGED <<driverVars, restVars>>

NextGAN ==
    \/ BuildModels
    \/ CompileOnly
    \/ AddFadeInLayers
    \/ UpdateAlpha
    \/ RemoveFadeInLayers
    \/ TrainOnBatch

SpecGAN == InitGAN /\ [][NextGAN]_vars

----------------------------------------------------------------------------
(* Calls on a StyleGANGenerator *)

LatentValues == { 2 }
RandomLatentValues == { 3 }
SynthesisAlphas == { Q(0, 1), Q(1, 2), Q(1, 1) }

\* StyleGANGenerator(n_blocks=n): a new module is in training mode
ConstructGenerator ==
    /\ pc = "idle"
    /\ stylegan.pc = "new"
    /\ \E n \in 1..MaxStyleBlocks :
           stylegan' = [IdleStyleGAN EXCEPT !.pc = "built", !.n_blocks = n,
                                            !.training = TRUE]
    /\ UNCHANGED <<driverVars, gan, collector, mbsd, moreVars>>

\* generator.train() / generator.eval()
SetTraining ==
    /\ pc = "idle"
    /\ stylegan.pc = "built"
    /\ stylegan' = [stylegan EXCEPT !.training = ~stylegan.training]
    /\ UNCHANGED <<driverVars, gan, collector, mbsd, moreVars>>

\* StyleGANGenerator.forward(x, block=blk, alpha=a); m is what the mapping
\* network makes of x, r what it makes of x_rand, cutoff the mixing cutoff
GeneratorForward ==
    /\ pc = "idle"
    /\ stylegan.pc = "built"
    /\ stylegan.training => stylegan.nUpdates < MaxAvgUpdates
    /\ \E m \in LatentValues, r \in RandomLatentValues,
          blk \in 0..(stylegan.n_blocks + 1), a \in SynthesisAlphas :
         \* lines 361-366: drawn in training mode only
         \E cutoff \in (IF stylegan.training THEN 1..(2 * (blk + 1)) ELSE {0}) :
           LET n == stylegan.n_blocks
               w_orig == g_mapping(m, n)
               avg == IF stylegan.training
                      THEN Truncation_update(stylegan.avg_latent, w_orig[1])
                      ELSE stylegan.avg_latent
               w == forward_styles(stylegan.training, avg, w_orig,
                                   g_mapping(r, n), cutoff)
           IN  stylegan' =
                 [stylegan EXCEPT
                    !.avg_latent = avg,
                    !.nUpdates = IF stylegan.training THEN @ + 1 ELSE @,
                    !.last = [entry |-> "generator", block |-> blk, alpha |-> a,
                              training |-> stylegan.training,
                              w_orig |-> w_orig, w |-> w,
                              avg_before |-> stylegan.avg_latent,
                              result |-> Synthesis_forward(n, w, blk, a)]]
    /\ UNCHANGED <<driverVars, gan, collector, mbsd, moreVars>>

\* generator.g_synthesis(w, blk, a) called on its own
SynthesisForward ==
    /\ pc = "idle"
    /\ stylegan.pc = "built"
    /\ \E m \in LatentValues, blk \in 0..(stylegan.n_blocks + 1),
          a \in SynthesisAlphas :
           LET w == g_mapping(m, stylegan.n_blocks) IN
           stylegan' =
             [stylegan EXCEPT
                !.last = [entry |-> "synthesis", block |-> blk, alpha |-> a,
                          training |-> stylegan.training,
                          w_orig |-> w, w |-> w,
                          avg_before |-> stylegan.avg_latent,
                          result |-> Synthesis_forward(stylegan.n_blocks, w, blk, a)]]
    /\ UNCHANGED <<driverVars, gan, collector, mbsd, moreVars>>

\* SpotifyInfoCollector(token, spotify_id, spotify_secret, artists)
ConstructCollector ==
    /\ pc = "idle"
    /\ collector.pc = "new"
    /\ \E known \in SUBSET ArtistIds :
           collector' = [IdleCollector EXCEPT !.pc = "built", !.issued = 1,
                                              !.token = 1, !.artists = known]
    /\ UNCHANGED <<driverVars, gan, mbsd, stylegan, moreVars>>

\* get_genre_artists up to the loop (lines 68-69)
GetGenreArtists ==
    /\ pc = "idle"
    /\ collector.pc \in { "built", "done", "raised" }
    /\ \E n \in 0..MaxGenres, s \in SaveOnValues :
           collector' = [collector EXCEPT
                           !.pc = "search", !.genres = n, !.idx = 0,
                           !.save_on = s, !.results = << >>,
                           !.remaining_genres = n,
                           !.session = generate_spotify_session(collector),
                           !.call = NoApiCall]
    /\ UNCHANGED <<driverVars, gan, mbsd, stylegan, moreVars>>

\* the search of one genre (lines 71-82)
SearchGenre ==
    /\ pc = "idle"
    /\ collector.pc = "search"
    /\ collector.idx < collector.genres
    /\ collector.issued < MaxTokens
    /\ \E raises1 \in BOOLEAN, raises2 \in BOOLEAN, result \in ResultLists :
           LET s == api_call(collector, "search", raises1, raises2)
           IN  collector' = IF s.pc = "raised" THEN s
                            ELSE [s EXCEPT !.results = result, !.pc = "artists"]
    /\ UNCHANGED <<driverVars, gan, mbsd, stylegan, moreVars>>

\* one artist of the result (lines 83-98)
NextResultArtist ==
    /\ pc = "idle"
    /\ collector.pc = "artists"
    /\ collector.results # << >>
    /\ collector.issued < MaxTokens
    /\ LET artist_id == Head(collector.results)
       IN  IF artist_id \in collector.artists
           THEN collector' = [collector EXCEPT !.results = Tail(@)]
           ELSE \E raises1 \in BOOLEAN, raises2 \in BOOLEAN,
                   related_artists \in SUBSET ArtistIds :
                   LET s0 == [collector EXCEPT !.artists = @ \cup { artist_id }]
                       s == api_call(s0, "related", raises1, raises2)
                   IN  collector' =
                           IF s.pc = "raised" THEN s
                           ELSE [s EXCEPT !.artists = @ \cup related_artists,
                                          !.results = Tail(@)]
    /\ UNCHANGED <<driverVars, gan, mbsd, stylegan, moreVars>>

\* the end of one iteration of the genre loop (lines 100-111)
EndOfGenre ==
    /\ pc = "idle"
    /\ collector.pc = "artists"
    /\ collector.results = << >>
    /\ collector' = [collector EXCEPT
                       !.session = IF collector.idx % SessionRefreshEvery = 0
                                   THEN generate_spotify_session(collector)
                                   ELSE @,
                       !.remaining_genres =
                           IF collector.idx % collector.save_on = 0
                           THEN collector.genres - collector.idx ELSE @,
                       !.idx = @ + 1,
                       !.pc = "search"]
    /\ UNCHANGED <<driverVars, gan, mbsd, stylegan, moreVars>>

\* after the loop (lines 114-117)
FinishCollection ==
    /\ pc = "idle"
    /\ collector.pc = "search"
    /\ collector.idx = collector.genres
    /\ collector' = [collector EXCEPT !.remaining_genres = 0, !.pc = "done"]
    /\ UNCHANGED <<driverVars, gan, mbsd, stylegan, moreVars>>

NextCollector ==
    \/ ConstructCollector
    \/ GetGenreArtists
    \/ SearchGenre
    \/ NextResultArtist
    \/ EndOfGenre
    \/ FinishCollection

SpecCollector == InitGAN /\ [][NextCollector]_vars

\* MinibatchStdDev(group_size, num_new_features)
ConstructMinibatchStdDev ==
    /\ pc = "idle"
    /\ mbsd.pc = "new"
    /\ \E g \in 1..MaxStdGroup, f \in 1..MaxStdFeatures :
           mbsd' = [IdleMinibatchStdDev EXCEPT !.pc = "built", !.group_size = g,
                                               !.num_new_features = f]
    /\ UNCHANGED <<driverVars, gan, collector, stylegan, moreVars>>

\* layer(x) for an input of shape (b, c, s, s)
MinibatchStdDevForward ==
    /\ pc = "idle"
    /\ mbsd.pc = "built"
    /\ \E b \in 1..MaxStdBatch, c \in 1..MaxStdChannels, s \in 1..MaxStdSize :
           mbsd' = [mbsd EXCEPT
                      !.x = << b, c, s, s >>,
                      !.z = MinibatchStdDev_forward(mbsd.group_size,
                                mbsd.num_new_features, << b, c, s, s >>),
                      !.called = TRUE]
    /\ UNCHANGED <<driverVars, gan, collector, stylegan, moreVars>>

NextMinibatchStdDev ==
    \/ ConstructMinibatchStdDev
    \/ MinibatchStdDevForward

SpecMinibatchStdDev == InitGAN /\ [][NextMinibatchStdDev]_vars

\* SpotifyDataGenerator(meta_df, batch_size, image_size, return_release_year)
ConstructLoader ==
    /\ pc = "idle"
    /\ loader.pc = "new"
    /\ \E df \in MetaFrames, b \in 1..MaxLoaderBatch, y \in BOOLEAN :
           loader' = SpotifyDataGenerator_init(df, b, y)
    /\ UNCHANGED <<driverVars, gan, collector, mbsd, stylegan, truncation>>

\* generator[item]: the next batch
GetItem ==
    /\ pc = "idle"
    /\ loader.pc = "built"
    /\ \E perm \in Perms(loader.n_images) :
           loader' = getitem(loader, perm)
    /\ UNCHANGED <<driverVars, gan, collector, mbsd, stylegan, truncation>>

NextLoader ==
    \/ ConstructLoader
    \/ GetItem

SpecLoader == InitGAN /\ [][NextLoader]_vars

\* Truncation(avg_latent, beta=b)
ConstructTruncation ==
    /\ pc = "idle"
    /\ truncation.pc = "new"
    /\ \E b \in Betas, a \in AvgValues :
           truncation' = [IdleTruncation EXCEPT !.pc = "built", !.beta = b,
                                                !.initial = a, !.avg_latent = a]
    /\ UNCHANGED <<driverVars, gan, collector, mbsd, stylegan, loader>>

\* truncation.update(last_avg)
TruncationUpdate ==
    /\ pc = "idle"
    /\ truncation.pc = "built"
    /\ truncation.nUpdates < MaxUpdates
    /\ \E last_avg \in LastAvgValues :
           truncation' = [truncation EXCEPT
                            !.avg_latent = update(truncation.beta, @, last_avg),
                            !.last_avg = last_avg,
                            !.nUpdates = @ + 1]
    /\ UNCHANGED <<driverVars, gan, collector, mbsd, stylegan, loader>>

NextTruncation ==
    \/ ConstructTruncation
    \/ TruncationUpdate

SpecTruncation == InitGAN /\ [][NextTruncation]_vars

\* bounds of the trainer's step counter and of every_n_train_steps
MaxGlobalStep == 3
MaxEveryN == 2

\* GenerateImages.generate_image_set, line 121: task.generator.eval()
\* (the images themselves come from task.ema_generator, another module)
generate_image_set(g) == [g EXCEPT !.training = FALSE]

\* GenerateImages.on_train_batch_end(trainer, pl_module, ...) with
\* pl_module.generator the StyleGANGenerator
OnTrainBatchEnd ==
    /\ pc = "idle"
    /\ stylegan.pc = "built"
    /\ \E global_step \in 0..MaxGlobalStep, every_n_train_steps \in 1..MaxEveryN :
           LET generates == global_step % every_n_train_steps = 0
               g == IF generates THEN generate_image_set(stylegan) ELSE stylegan
           IN  stylegan' =
                 [g EXCEPT
                    !.last = [NoCall EXCEPT
                                !.entry = "callback",
                                !.training = stylegan.training,
                                !.avg_before = stylegan.avg_latent,
                                !.result.outcome =
                                    IF generates THEN "generated" ELSE "skipped"]]
    /\ UNCHANGED <<driverVars, gan, collector, mbsd, moreVars>>

NextCallback ==
    \/ ConstructGenerator
    \/ GeneratorForward
    \/ OnTrainBatchEnd

SpecCallback == InitGAN /\ [][NextCallback]_vars

NextStyleGAN ==
    \/ ConstructGenerator
    \/ SetTraining
    \/ GeneratorForward
    \/ SynthesisForward

SpecStyleGAN == InitGAN /\ [][NextStyleGAN]_vars

----------------------------------------------------------------------------
(* The training driver *)

InitDriver ==
    /\ WARM_START \in BOOLEAN
    /\ TRAIN_STEPS \in 0..MaxTrainSteps
    /\ pc = "block_start"
    /\ block = 0
    /\ fadeIdx = 1
    /\ fade = FALSE
    /\ step = 0
    /\ steps = 0
    /\ batch_size = 0
    /\ initial_iter = 0
    /\ alphas = << >>
    /\ alpha = Zero
    /\ ganAlpha = [b \in 0..(N_BLOCKS - 1) |-> Zero]
    /\ images_shown = 0
    /\ crash = ""
    /\ lastTrain = NoTrain
    /\ phaseK = 0
    /\ phases = << >>
    /\ phaseEnded = FALSE
    /\ lastPopped = Zero
    /\ nEnded = 0
    /\ phaseStart = [alphas |-> << >>,
                     ganAlpha |-> [b \in 0..(N_BLOCKS - 1) |-> Zero]]
    /\ IdleData

Crash(what) ==
    /\ pc' = "crashed"
    /\ crash' = what

\* lines 49-67: the head of the block loop
BlockStart ==
    /\ pc = "block_start"
    /\ block < N_BLOCKS
    /\ \E env \in LoadEnvs :
         LET loaded == load_data(env)
             bs == BATCH_SIZE \div ACCUMULATIVE_UPDATES(block)
         IN
         /\ lastLoad' = [env |-> env, result |-> loaded, called |-> TRUE]
         /\ IF loaded.none
            THEN \* images, img_idx = None
                 /\ Crash("TypeError")
                 /\ UNCHANGED <<images, batch_size, initial_iter, batch_idx,
                                steps, alphas, fadeIdx>>
            ELSE /\ images' = loaded.shape0
                 /\ batch_size' = bs
                 /\ \E ii \in (IF WARM_START THEN 0..MaxInitialIter ELSE {0}) :
                        initial_iter' = ii
                 /\ batch_idx' = 0
                 /\ IF bs = 0
                    THEN /\ Crash("ZeroDivisionError")
                         /\ UNCHANGED <<steps, alphas, fadeIdx>>
                    ELSE /\ steps' = TRAIN_STEPS \div bs
                         /\ alphas' = linspace(TRAIN_STEPS \div bs)
                         /\ fadeIdx' = 1
                         /\ pc' = "fade_loop"
                         /\ crash' = crash
    /\ lastBatch' = NoBatch
    /\ phaseEnded' = FALSE
    /\ UNCHANGED <<gan, restVars, nEnded, phaseStart, WARM_START, TRAIN_STEPS, block, fade, step, alpha, ganAlpha,
                   images_shown, lastTrain, phaseK, phases, lastPopped>>

\* lines 68-70: `continue` for the fade-in phase of block 0
FadeSkip ==
    /\ pc = "fade_loop"
    /\ fadeIdx <= Len(FADE)
    /\ FADE[fadeIdx] /\ block = 0
    /\ fade' = FADE[fadeIdx]
    /\ fadeIdx' = fadeIdx + 1
    /\ phaseEnded' = FALSE
    /\ UNCHANGED <<gan, restVars, dataVars, nEnded, phaseStart, WARM_START, TRAIN_STEPS, pc, block, step, steps, batch_size,
                   initial_iter, alphas, alpha, ganAlpha, images_shown, crash,
                   lastTrain, phaseK, phases, lastPopped>>

\* lines 68-71: the next phase of the block starts its step loop
FadeNext ==
    /\ pc = "fade_loop"
    /\ fadeIdx <= Len(FADE)
    /\ ~(FADE[fadeIdx] /\ block = 0)
    /\ fade' = FADE[fadeIdx]
    /\ fadeIdx' = fadeIdx + 1
    /\ step' = initial_iter \div batch_size
    /\ pc' = "step_loop"
    /\ phases' = Append(phases, [block |-> block, fade |-> FADE[fadeIdx]])
    /\ phaseK' = 0
    /\ phaseEnded' = FALSE
    /\ phaseStart' = [alphas |-> alphas, ganAlpha |-> ganAlpha]
    /\ UNCHANGED <<gan, restVars, dataVars, nEnded, WARM_START, TRAIN_STEPS, block, steps, batch_size,
                   initial_iter, alphas, alpha, ganAlpha, images_shown, crash,
                   lastTrain, lastPopped>>

\* lines 167-169: both phases done, save and go to the next block
BlockEnd ==
    /\ pc = "fade_loop"
    /\ fadeIdx > Len(FADE)
    /\ block' = block + 1
    /\ pc' = "block_start"
    /\ phaseEnded' = FALSE
    /\ UNCHANGED <<gan, restVars, dataVars, nEnded, phaseStart, WARM_START, TRAIN_STEPS, fadeIdx, fade, step, steps,
                   batch_size, initial_iter, alphas, alpha, ganAlpha,
                   images_shown, crash, lastTrain, phaseK, phases, lastPopped>>

\* line 171: the block loop is exhausted
Finish ==
    /\ pc = "block_start"
    /\ block >= N_BLOCKS
    /\ pc' = "done"
    /\ UNCHANGED <<gan, restVars, dataVars, nEnded, phaseStart, WARM_START, TRAIN_STEPS, block, fadeIdx, fade, step, steps,
                   batch_size, initial_iter, alphas, alpha, ganAlpha,
                   images_shown, crash, lastTrain, phaseK, phases, phaseEnded,
                   lastPopped>>

\* lines 71-74: a step begins; in a fade-in phase it pops the next alpha and
\* writes it to the gan
StepPop ==
    /\ pc = "step_loop"
    /\ step < steps
    /\ IF fade
       THEN IF alphas = << >>
            THEN /\ Crash("IndexError")
                 /\ UNCHANGED <<alphas, alpha, ganAlpha, lastPopped>>
            ELSE /\ alpha' = list_pop0(alphas).value
                 /\ alphas' = list_pop0(alphas).rest
                 /\ ganAlpha' = update_alpha_block(ganAlpha,
                                                   list_pop0(alphas).value, block)
                 /\ lastPopped' = list_pop0(alphas).value
                 /\ pc' = "train"
                 /\ crash' = crash
       ELSE /\ pc' = "train"
            /\ UNCHANGED <<alphas, alpha, ganAlpha, lastPopped, crash>>
    /\ UNCHANGED <<gan, restVars, dataVars, nEnded, phaseStart, WARM_START, TRAIN_STEPS, block, fadeIdx, fade, step, steps,
                   batch_size, initial_iter, images_shown, lastTrain, phaseK,
                   phases, phaseEnded>>

\* lines 75-86: the batch of the step and its gradient step(s)
StepTrain ==
    /\ pc = "train"
    /\ LET minibatch_size == batch_size * N_CRITIC
           idx == BatchWindow(batch_idx, minibatch_size, images)
           shuffle == ShuffleCondition(idx, images)
           args == TrainArgs(block, fade)
       IN
       /\ lastBatch' = [idx |-> idx, start |-> batch_idx, shuffled |-> shuffle]
       /\ IF \E j \in DOMAIN idx : idx[j] >= images
          THEN \* batch_images = images[batch_idx] with an index out of bounds
               /\ Crash("IndexError: index out of bounds")
               /\ UNCHANGED <<batch_idx, lastTrain, phaseK, images_shown>>
          ELSE /\ batch_idx' = idx[Len(idx)] + 1
               /\ lastTrain' = [block |-> args.block, fade |-> args.fade,
                                alpha |-> ganAlpha[args.block], k |-> phaseK,
                                variants |-> TrainedVariants(args.block, args.fade),
                                calls |-> MINIBATCH_REPS]
               /\ phaseK' = phaseK + 1
               /\ images_shown' = images_shown + batch_size
               /\ pc' = "log"
               /\ crash' = crash
    /\ UNCHANGED <<gan, restVars, nEnded, phaseStart, WARM_START, TRAIN_STEPS, block, fadeIdx, fade, step, steps,
                   batch_size, initial_iter, alphas, alpha, ganAlpha,
                   phases, phaseEnded, lastPopped, images, lastLoad>>

\* lines 88-165: progress report; every (steps // 10)-th step of a fade-in
\* phase generates images at alpha 0 and at alpha 1
StepLog ==
    /\ pc = "log"
    /\ IF steps \div LogDivisor = 0
       THEN /\ Crash("ZeroDivisionError")
            /\ UNCHANGED <<alpha, ganAlpha, step>>
       ELSE /\ IF step % (steps \div LogDivisor) = 0 /\ fade
               THEN /\ alpha' = One
                    /\ ganAlpha' = update_alpha_block(
                                       update_alpha_block(ganAlpha, Zero, block),
                                       One, block)
               ELSE UNCHANGED <<alpha, ganAlpha>>
            /\ step' = step + 1
            /\ pc' = "step_loop"
            /\ crash' = crash
    /\ UNCHANGED <<gan, restVars, dataVars, nEnded, phaseStart, WARM_START, TRAIN_STEPS, block, fadeIdx, fade, steps,
                   batch_size, initial_iter, alphas, images_shown, lastTrain,
                   phaseK, phases, phaseEnded, lastPopped>>

\* line 71: range(initial_iter // batch_size, steps) is exhausted
PhaseEnd ==
    /\ pc = "step_loop"
    /\ step >= steps
    /\ pc' = "fade_loop"
    /\ phaseEnded' = TRUE
    /\ nEnded' = nEnded + 1
    /\ UNCHANGED <<gan, restVars, dataVars, phaseStart, WARM_START, TRAIN_STEPS, block, fadeIdx, fade, step, steps,
                   batch_size, initial_iter, alphas, alpha, ganAlpha,
                   images_shown, crash, lastTrain, phaseK, phases, lastPopped>>

Init == InitDriver /\ gan = IdleGAN /\ IdleRest

Next ==
    \/ BlockStart
    \/ FadeSkip
    \/ FadeNext
    \/ BlockEnd
    \/ Finish
    \/ StepPop
    \/ StepTrain
    \/ StepLog
    \/ PhaseEnd

Spec == Init /\ [][Next]_vars

----------------------------------------------------------------------------
(* Properties of the training driver *)

StepPcs == {"step_loop", "train", "log"}

\* the i-th phase of a complete run: burn-in of block 0, then for every later
\* block its fade-in followed by its burn-in
ExpectedPhase(i) ==
    IF i = 1 THEN [block |-> 0, fade |-> FALSE]
    ELSE [block |-> i \div 2, fade |-> (i % 2 = 0)]

CurrentPhase == phases[Len(phases)]

\* C1: the driver visits the blocks in increasing order from block 0; block 0
\* has only a burn-in phase; every later block runs its fade-in phase until
\* its step loop is left and then its burn-in phase, before the next block;
\* every training step belongs to the phase entered last, and after the
\* burn-in of the last block the driver can take no further step.
C1_PhasesInOrder ==
    /\ \A i \in DOMAIN phases : phases[i] = ExpectedPhase(i)
    /\ pc \in StepPcs =>
           /\ Len(phases) = nEnded + 1
           /\ CurrentPhase = [block |-> block, fade |-> fade]
    /\ pc \in {"block_start", "fade_loop", "done"} => Len(phases) = nEnded
    /\ pc = "log" =>
           [block |-> lastTrain.block, fade |-> lastTrain.fade] = CurrentPhase
    /\ pc = "done" =>
           /\ Len(phases) = 2 * N_BLOCKS - 1
           /\ ~ ENABLED Next

C1_Witness ==
    /\ pc = "done"
    /\ Len(phases) = 2 * N_BLOCKS - 1
    /\ lastTrain.block = N_BLOCKS - 1
    /\ images_shown > 0

\* C2: in a fade-in phase the value popped for a step is in the Weighted Sum
\* state when the gradient step runs: the k-th gradient step of the phase is
\* trained with the k-th value of the schedule linspace(0, 1, steps).
C2_KthStepUsesKthAlpha ==
    /\ (pc = "train" /\ fade) =>
           /\ ganAlpha[block] = lastPopped
           /\ Len(alphas) = steps - (phaseK + 1)
    /\ (pc = "log" /\ lastTrain.fade) =>
           /\ lastTrain.k + 1 <= steps
           /\ lastTrain.alpha = linspace(steps)[lastTrain.k + 1]

C2_Witness ==
    /\ pc = "log"
    /\ lastTrain.fade
    /\ lastTrain.k = 2
    /\ FracEq(lastTrain.alpha, Frac(2, steps - 1))

\* the schedule as it is right after the block head created it
ScheduleJustCreated == pc = "fade_loop" /\ fadeIdx = 1

InUnitInterval(a) == FracLE(Zero, a) /\ FracLE(a, One)

WellFormedSchedule(s, n) ==
    /\ Len(s) = n
    /\ \A i \in DOMAIN s : InUnitInterval(s[i])
    /\ \A i \in DOMAIN s : i + 1 \in DOMAIN s => FracLE(s[i], s[i + 1])
    /\ FracEq(s[1], Zero)
    /\ FracEq(s[Len(s)], One)

\* C3 as stated: for every steps >= 1 the schedule has steps entries in
\* [0,1], is non-decreasing, starts at 0 and ends at 1.
C3_Original ==
    (ScheduleJustCreated /\ steps >= 1) => WellFormedSchedule(alphas, steps)

\* C3 amended: the schedule always has steps entries; for steps >= 2 they lie
\* in [0,1], are non-decreasing, start at 0 and end at 1; for steps = 1 the
\* only entry is 0.
C3_ScheduleShape ==
    ScheduleJustCreated =>
        /\ Len(alphas) = steps
        /\ steps >= 2 => WellFormedSchedule(alphas, steps)
        /\ steps = 1 => FracEq(alphas[1], Zero)

C3_Witness ==
    /\ ScheduleJustCreated
    /\ steps = 10
    /\ block = 1

\* C4 as stated: when the fade-in phase of a block b >= 1 ends, the schedule
\* is empty, no pop was attempted on an empty schedule, and the last value
\* taken is 1, whatever the starting step of the phase.  (Stated for the
\* schedules long enough for the progress report of line 89, steps >= 10.)
C4_ScheduleConsumed ==
    /\ crash # "IndexError"
    /\ (phaseEnded /\ fade /\ block >= 1 /\ steps >= LogDivisor) =>
           /\ alphas = << >>
           /\ FracEq(lastPopped, One)

BurnInLeavesAlpha ==
    (pc \in StepPcs /\ ~fade) =>
        /\ alphas = phaseStart.alphas
        /\ ganAlpha = phaseStart.ganAlpha

\* C7 as stated: a burn-in phase runs the configured number of steps, and the
\* schedule and the Weighted Sum alpha are the same at its end as at its start.
\* (Stated for steps >= 10, as C4.)
C7_BurnInFixedSteps ==
    /\ BurnInLeavesAlpha
    /\ (phaseEnded /\ ~fade /\ steps >= LogDivisor) =>
           /\ phaseK = steps
           /\ alphas = phaseStart.alphas
           /\ ganAlpha = phaseStart.ganAlpha

\* the alpha an uninterrupted run writes at step index k of a fade-in phase
UninterruptedAlpha(k) == linspace(steps)[k + 1]

\* C13 as stated: the alpha a fade-in step with index `step` is trained with is
\* the one an uninterrupted run writes at that index, in a resumed
\* (WARM_START) run as in a fresh one.
C13_ResumedAlphaMatches ==
    (pc = "log" /\ lastTrain.fade) =>
        FracEq(lastTrain.alpha, UninterruptedAlpha(step))

\* what the code keeps: the alpha matches the step index in a run that is not
\* warm-started
FreshRunAlphaMatches ==
    (pc = "log" /\ lastTrain.fade /\ ~WARM_START) =>
        FracEq(lastTrain.alpha, UninterruptedAlpha(step))

\* the window of the latest step ran past the last image
WindowWrapped == lastBatch.start + Len(lastBatch.idx) > images

IndicesInRange ==
    \A j \in DOMAIN lastBatch.idx :
        0 <= lastBatch.idx[j] /\ lastBatch.idx[j] < images

\* C15 as stated: whenever the index window of a step runs past the last image
\* and wraps to the beginning, the images are reshuffled, and all indices of
\* the batch lie in [0, images.shape[0]).  (Stated for a data set that holds at
\* least one batch.)
C15_ReshuffleOnWrap ==
    (lastBatch.idx # << >> /\ Len(lastBatch.idx) <= images) =>
        /\ WindowWrapped => lastBatch.shuffled
        /\ IndicesInRange

\* what the code keeps: a batch no larger than the data set has all its indices
\* in range, and is never reshuffled
BatchInRangeNeverShuffled ==
    (lastBatch.idx # << >> /\ Len(lastBatch.idx) <= images) =>
        /\ IndicesInRange
        /\ ~lastBatch.shuffled

\* the data set did not fit in memory
DataTooLarge ==
    \/ lastLoad.env.np_path_exists /\ ~lastLoad.env.fits
    \/ ~lastLoad.env.np_path_exists /\ lastLoad.env.memory_error

\* C16 as stated: when the data do not fit in memory load_data still hands the
\* driver an (images, index) result, and the driver goes on.
C16_LoadDataDegrades ==
    (lastLoad.called /\ DataTooLarge) =>
        /\ ~lastLoad.result.none
        /\ crash # "TypeError"

\* what the code keeps: load_data returns images exactly when they fit
LoadDataReturnsWhenFits ==
    lastLoad.called => (lastLoad.result.none <=> DataTooLarge)

----------------------------------------------------------------------------
(* Properties of the ProGAN object *)

WeightedSums(layers) ==
    { layers[i] : i \in { j \in DOMAIN layers : layers[j].kind = "WeightedSum" } }

\* C5: after update_alpha(a) every Weighted Sum layer of the generator and of
\* the discriminator holds a; at every train_on_batch the Weighted Sum layers
\* of the generator and of the discriminator hold the same value.
C5_AlphaSynchronized ==
    /\ gan.lastOp = "update_alpha" =>
           \A l \in WeightedSums(gan.generator) \cup WeightedSums(gan.discriminator) :
               l.alpha = gan.lastAlpha
    /\ gan.lastOp = "train_on_batch" =>
           \A lg \in WeightedSums(gan.generator) :
               \A ld \in WeightedSums(gan.discriminator) : lg.alpha = ld.alpha

C5_Witness ==
    /\ gan.lastOp = "train_on_batch"
    /\ \E lg \in WeightedSums(gan.generator) : lg.alpha = Frac(1, 2)
    /\ \E ld \in WeightedSums(gan.discriminator) : ld.alpha = Frac(1, 2)

\* every layer after the first is applied to the one before it
IsChain(layers) ==
    \A i \in DOMAIN layers :
        layers[i].inp = IF i = 1 THEN << >> ELSE << layers[i - 1].id >>

PrunedToNewPath ==
    /\ IdSeq(gan.generator) = gan.fadeNewGen
    /\ IdSeq(gan.discriminator) = gan.fadeNewDisc
    /\ IsChain(gan.generator)
    /\ IsChain(gan.discriminator)
    /\ ~HasWeightedSum(gan.generator)
    /\ ~HasWeightedSum(gan.discriminator)

\* C8 as stated: after remove_fade_in_layers at the end of any fade-in cycle
\* the generator and the discriminator are exactly the new-resolution path of
\* the fade-in variant, in its order, with no Weighted Sum and no old-path
\* layer left.
C8_PrunedIsNewPath ==
    gan.lastOp = "remove_fade_in_layers" => PrunedToNewPath

\* the same for the first cycle after a build only
FirstCyclePrunedIsNewPath ==
    (gan.lastOp = "remove_fade_in_layers" /\ gan.cycles = 1) => PrunedToNewPath

\* C9: whenever build_models has compiled the combined model, no layer of the
\* discriminator was trainable and every layer of the generator was, on the
\* first build and on every compile_only rebuild.
C9_CombinedFreezesDiscriminator ==
    gan.combined_model.compiled =>
        /\ gan.combined_model.discLayers \cap gan.combined_model.trainable = {}
        /\ gan.combined_model.genLayers \subseteq gan.combined_model.trainable
        /\ gan.combined_model.genLayers # {}
        /\ gan.combined_model.discLayers # {}

C9_Witness ==
    /\ gan.lastOp = "compile_only"
    /\ gan.cycles = 1
    /\ \E l \in WeightedSums(gan.generator) : l.id \in gan.combined_model.genLayers
    /\ \E l \in WeightedSums(gan.discriminator) : l.id \in gan.combined_model.discLayers

\* C10: one train_on_batch(real_images, n_critic) makes n_critic discriminator
\* updates and then one generator update; the i-th discriminator update uses
\* images [(i-1) * bs, i * bs) with bs = B div n_critic, slices that lie in the
\* batch and do not overlap.
C10_CriticThenGenerator ==
    gan.lastOp = "train_on_batch" =>
        LET n == gan.lastArgs.n_critic
            bs == gan.lastArgs.B \div n
            u == gan.updates
        IN  /\ Len(u) = n + 1
            /\ \A i \in 1..n :
                   /\ u[i].kind = "D"
                   /\ u[i].lo = (i - 1) * bs
                   /\ u[i].hi = i * bs
                   /\ u[i].hi <= gan.lastArgs.B
            /\ \A i \in 1..n : \A j \in 1..n :
                   i < j => u[i].hi <= u[j].lo
            /\ u[n + 1].kind = "G"

C10_Witness ==
    /\ gan.lastOp = "train_on_batch"
    /\ gan.lastArgs = [B |-> 3, n_critic |-> 2]
    /\ Len(gan.updates) = 3

DiscriminatorHistories ==
    { gan.history.D_loss, gan.history.D_loss_positives,
      gan.history.D_loss_negatives, gan.history.D_loss_dummies }

\* C11 as stated: after the train_on_batch calls made since the models were
\* built, every discriminator history sequence has one entry per
\* discriminator update (the sum of the calls' n_critic) and G_loss has one
\* entry per call.
C11_HistoryPerUpdate ==
    gan.built =>
        /\ \A h \in DiscriminatorHistories : Len(h) = gan.nCritic
        /\ Len(gan.history.G_loss) = gan.nCalls

\* what the code keeps: one entry per call in every history sequence
HistoryPerCall ==
    gan.built =>
        /\ \A h \in DiscriminatorHistories : Len(h) = gan.nCalls
        /\ Len(gan.history.G_loss) = gan.nCalls

HistoryKeys ==
    {"D_loss", "D_loss_positives", "D_loss_negatives", "D_loss_dummies", "G_loss"}

IsPrefix(s, u) == Len(s) <= Len(u) /\ SubSeq(u, 1, Len(s)) = s

HistoryGrows ==
    \A key \in HistoryKeys : IsPrefix(gan.history[key], gan'.history[key])

\* C12 as stated: every call on the ProGAN object (build_models,
\* add_fade_in_layers, remove_fade_in_layers, update_alpha, train_on_batch)
\* leaves every history sequence with its old content as a prefix.
C12_HistoryAppendOnly == [][HistoryGrows]_vars

\* what the code keeps: every call other than a full build_models leaves the old
\* content as a prefix
AppendOnlyExceptFullBuild ==
    [][gan'.lastOp # "build_models" => HistoryGrows]_vars

----------------------------------------------------------------------------
(* Properties of the StyleGAN generator *)

LastCall == stylegan.last

\* the largest block index the constructed network has every module for:
\* to_rgb holds n_blocks modules, numbered from 0
TopologyMaximum == stylegan.n_blocks - 1

\* C14 as stated: a synthesis request for a block index above the largest one
\* the constructed network can serve ends in the ValueError of line 299 with no
\* module evaluated.
C14_RejectedBeforeEvaluation ==
    (LastCall.entry = "synthesis" /\ LastCall.block > TopologyMaximum) =>
        /\ LastCall.result.outcome = "ValueError"
        /\ LastCall.result.evaluated = << >>

\* what the code keeps: a block index above n_blocks is rejected with
\* ValueError before any module of the synthesis network is evaluated
AboveNBlocksRejected ==
    (LastCall.entry # "none" /\ LastCall.block > stylegan.n_blocks) =>
        /\ LastCall.result.outcome = "ValueError"
        /\ LastCall.result.evaluated = << >>

\* C24 as stated: forward returns an image for every block index in
\* 0..n_blocks and rejects exactly the block indices above n_blocks.
C24_EveryBlockUpToNBlocksServed ==
    LastCall.entry = "synthesis" =>
        /\ LastCall.block <= stylegan.n_blocks =>
               /\ LastCall.result.outcome = "returned"
               /\ LastCall.result.image # NoImage
        /\ LastCall.block > stylegan.n_blocks =>
               LastCall.result.outcome = "ValueError"

\* what the code keeps: an image for every block index below n_blocks
BelowNBlocksServed ==
    (LastCall.entry = "synthesis" /\ LastCall.block < stylegan.n_blocks) =>
        /\ LastCall.result.outcome = "returned"
        /\ LastCall.result.image # NoImage

\* C19 as stated: in eval mode the generator hands the synthesis network, for
\* every layer below max_layer, the style interpolated toward the average
\* latent, and for every other layer the style as the mapping network made it.
C19_TruncationAtInference ==
    (LastCall.entry = "generator" /\ ~LastCall.training) =>
        \A i \in DOMAIN LastCall.w :
            LastCall.w[i] =
                IF i - 1 < TruncationMaxLayer
                THEN lerp(stylegan.avg_latent, LastCall.w_orig[i],
                          TruncationThreshold)
                ELSE LastCall.w_orig[i]

\* what the code keeps: in eval mode every style is passed on as the mapping
\* network made it
NoTruncationAtInference ==
    (LastCall.entry = "generator" /\ ~LastCall.training) =>
        LastCall.w = LastCall.w_orig

\* the weighted terms of an image whose weight is not 0
NonZeroTerms(image) == SelectSeq(image, LAMBDA e : e.coef # Q(0, 1))

----------------------------------------------------------------------------
(* Alpha between the steps of a fade-in phase *)

\* a step of the current fade-in phase has just completed
FadeStepCompleted == pc = "step_loop" /\ fade /\ phaseK > 0

\* C26 as stated: in a fade-in phase alpha only ever takes the next schedule
\* value, so after each completed step, a step that generates progress images
\* included, the Weighted Sum alpha of the block and the driver's alpha are
\* the value popped for that step.
C26_AlphaIsPoppedValue ==
    FadeStepCompleted =>
        /\ FracEq(ganAlpha[block], lastPopped)
        /\ FracEq(alpha, lastPopped)

\* what the code keeps: after a completed step alpha is the popped value or
\* the 1 left behind by the progress images
AlphaIsPoppedValueOrOne ==
    FadeStepCompleted =>
        /\ FracEq(ganAlpha[block], lastPopped) \/ FracEq(ganAlpha[block], One)
        /\ FracEq(alpha, ganAlpha[block])

----------------------------------------------------------------------------
(* Properties of build_models and add_fade_in_layers *)

\* the optimizer the documentation gives the discriminator: the one passed as
\* discriminator_optimizer, optimizer if that is None
DocumentedDiscriminatorOptimizer ==
    IF gan.buildArgs.discriminator_optimizer = "None"
    THEN gan.buildArgs.optimizer
    ELSE gan.buildArgs.discriminator_optimizer

\* C22 as stated: build_models compiles the discriminator training model with
\* discriminator_optimizer (optimizer if it is None) and the combined model
\* with optimizer.
C22_OptimizersAsDocumented ==
    gan.discriminator_model.compiled =>
        /\ gan.discriminator_model.optimizer = DocumentedDiscriminatorOptimizer
        /\ gan.combined_model.optimizer = gan.buildArgs.optimizer

\* what the code does: the two optimizers are handed over the other way round
OptimizersExchanged ==
    gan.discriminator_model.compiled =>
        /\ gan.discriminator_model.optimizer = gan.buildArgs.optimizer
        /\ gan.combined_model.optimizer = DocumentedDiscriminatorOptimizer

\* the layers of Model.layers behind the Weighted Sum, as ids
AfterBlend(layers) ==
    LET i == CHOOSE j \in DOMAIN layers : layers[j].kind = "WeightedSum"
    IN  [k \in 1..(Len(layers) - i) |-> layers[i + k].id]

\* the discriminator without its input and its from-image stage
\* (layers[1] and layers[2] of the code), as ids
AfterFromImage(layers) ==
    [k \in 1..(Len(layers) - 3) |-> layers[k + 3].id]

\* every layer behind the Weighted Sum is applied to the one before it, the
\* first one to the Weighted Sum
BlendFeedsChain(layers) ==
    LET i == CHOOSE j \in DOMAIN layers : layers[j].kind = "WeightedSum"
    IN  \A k \in (i + 1)..Len(layers) :
            layers[k].inp = << layers[k - 1].id >>

FadeInFeedsAllOldLayers ==
    (gan'.lastOp = "add_fade_in_layers" /\ gan' # gan) =>
        /\ HasWeightedSum(gan'.discriminator)
        /\ AfterBlend(gan'.discriminator) = AfterFromImage(gan.discriminator)
        /\ BlendFeedsChain(gan'.discriminator)

\* C23 as stated: in every fade-in cycle add_fade_in_layers applies to the
\* Weighted Sum every layer of the previous discriminator other than its
\* from-image stage, in the original order and none skipped.
C23_BlendFeedsPreviousStack == [][FadeInFeedsAllOldLayers]_vars

\* the same for the first cycle after a build only
FirstCycleBlendFeedsPreviousStack ==
    [][gan.cycles = 0 => FadeInFeedsAllOldLayers]_vars

\* C25 as stated: whenever build_models has compiled the discriminator
\* training model, every layer of the discriminator was trainable and no layer
\* of the generator was, on the first build and on every compile_only rebuild.
C25_DiscriminatorModelTrainsDiscriminator ==
    gan.discriminator_model.compiled =>
        /\ gan.discriminator_model.discLayers
               \subseteq gan.discriminator_model.trainable
        /\ gan.discriminator_model.genLayers
               \cap gan.discriminator_model.trainable = {}

\* what the code keeps: the generator is frozen at every compile of the
\* discriminator training model, and after a full build all of the
\* discriminator is trained
GeneratorFrozenForDiscriminatorModel ==
    gan.discriminator_model.compiled =>
        /\ gan.discriminator_model.genLayers
               \cap gan.discriminator_model.trainable = {}
        /\ gan.lastOp = "build_models" =>
               gan.discriminator_model.discLayers
                   \subseteq gan.discriminator_model.trainable

----------------------------------------------------------------------------
(* Properties of the GenerateImages callback *)

\* C30 as stated: on_train_batch_end leaves the generator in the mode it found
\* it in, so a generator that was training is still training after the
\* callback has generated images.
C30_CallbackKeepsMode ==
    LastCall.entry = "callback" => stylegan.training = LastCall.training

\* what the code keeps: the mode is untouched on the steps that generate no
\* images; after images were generated the generator is in eval mode
CallbackLeavesEvalMode ==
    LastCall.entry = "callback" =>
        IF LastCall.result.outcome = "generated"
        THEN ~stylegan.training
        ELSE stylegan.training = LastCall.training

\* a forward pass of a generator in eval mode neither updates the average
\* latent nor changes the styles
EvalForwardLeavesAverage ==
    (LastCall.entry = "generator" /\ ~LastCall.training) =>
        /\ stylegan.avg_latent = LastCall.avg_before
        /\ LastCall.w = LastCall.w_orig

----------------------------------------------------------------------------
(* Properties of SpotifyInfoCollector *)

Attempts == collector.call.attempts

----------------------------------------------------------------------------
(* Properties of MinibatchStdDev *)

ForwardReturnsWidened ==
    /\ mbsd.z.ok
    /\ mbsd.z.shape = << mbsd.x[1], mbsd.x[2] + mbsd.num_new_features,
                         mbsd.x[3], mbsd.x[4] >>

\* C18 as stated: for every batch size b >= 1 and every channel count c,
\* forward returns b samples with c + num_new_features channels at the same
\* spatial size.  (Stated for c a multiple of num_new_features.)
C18_ForwardAnyBatch ==
    (mbsd.called /\ mbsd.x[2] % mbsd.num_new_features = 0) =>
        ForwardReturnsWidened

\* what the code keeps: forward returns, with c + num_new_features channels,
\* exactly when the batch is a multiple of the group (any batch no larger than
\* group_size is)
ForwardNeedsWholeGroups ==
    (mbsd.called /\ mbsd.x[2] % mbsd.num_new_features = 0) =>
        (ForwardReturnsWidened <=>
            mbsd.x[1] % Min2(mbsd.group_size, mbsd.x[1]) = 0)

----------------------------------------------------------------------------
(* Properties of Truncation.update *)

\* C21: with beta = 0 every update leaves avg_latent equal to the vector it
\* was handed; with beta = 1 avg_latent keeps the value of the constructor
\* after any number of updates.
C21_UpdateAtExtremeBeta ==
    /\ (truncation.beta = Q(0, 1) /\ truncation.nUpdates > 0) =>
           truncation.avg_latent = truncation.last_avg
    /\ truncation.beta = Q(1, 1) =>
           truncation.avg_latent = truncation.initial

\* a layer with beta = 1 was updated as often as the bound allows, last with a
\* vector other than its average
C21_Witness ==
    /\ truncation.pc = "built"
    /\ truncation.beta = Q(1, 1)
    /\ truncation.nUpdates = MaxUpdates
    /\ truncation.last_avg # truncation.avg_latent

----------------------------------------------------------------------------
(* Properties of SpotifyDataGenerator *)

LastBatch == loader.last

\* the window of the batch reaches past the last image
BatchWraps == LastBatch.start + loader.batch_size > loader.n_images

\* C27 as stated: every batch has batch_size indices in [0, n_images) and
\* starts right behind the last index of the batch before it (modulo
\* n_images), so that consecutive batches share no index.
C27_BatchesTile ==
    LastBatch.called =>
        /\ Len(LastBatch.batch_idx) = loader.batch_size
        /\ \A j \in DOMAIN LastBatch.batch_idx :
               LastBatch.batch_idx[j] \in 0..(loader.n_images - 1)
        /\ LastBatch.hadPrev =>
               LET prev == LastBatch.prev_idx IN
               /\ LastBatch.batch_idx[1] = (prev[Len(prev)] + 1) % loader.n_images
               /\ loader.batch_size < loader.n_images =>
                      Range(prev) \cap Range(LastBatch.batch_idx) = {}

\* what the code keeps: a batch starts at the last index of the batch before
\* it, and its indices are valid when batch_size does not exceed n_images
BatchesOverlapByOne ==
    LastBatch.called =>
        /\ Len(LastBatch.batch_idx) = loader.batch_size
        /\ loader.batch_size <= loader.n_images =>
               \A j \in DOMAIN LastBatch.batch_idx :
                   LastBatch.batch_idx[j] \in 0..(loader.n_images - 1)
        /\ LastBatch.hadPrev =>
               LastBatch.batch_idx[1] =
                   LastBatch.prev_idx[Len(LastBatch.prev_idx)]

\* C28 as stated: a batch reshuffles the meta data exactly when its window
\* wraps past the last image; the first batch after construction does not.
C28_ReshuffleExactlyOnWrap ==
    LastBatch.called => (LastBatch.shuffled <=> BatchWraps)

\* what the code keeps: every wrapping batch reshuffles, and so does every
\* batch that starts at index 0, the first one included
ReshuffleOnWrapOrStartAtZero ==
    LastBatch.called =>
        (LastBatch.shuffled <=> (BatchWraps \/ LastBatch.start = 0))

\* C29: with return_release_year every element of a batch gets the release
\* year of the record its image file belongs to, after reshuffles and when
\* records were dropped at construction.
C29_YearFromSameRow ==
    (LastBatch.called /\ loader.return_release_year) =>
        \A j \in DOMAIN LastBatch.batch_idx :
            LastBatch.files[j] # 0 => LastBatch.years[j] = LastBatch.files[j]

\* a second batch of a generator that dropped records, read after a wrap
C29_Witness ==
    /\ LastBatch.called
    /\ loader.return_release_year
    /\ loader.dropped
    /\ LastBatch.hadPrev
    /\ LastBatch.shuffled
    /\ ~LastBatch.raised
    /\ \E j \in DOMAIN LastBatch.batch_idx :
           LastBatch.files[j] # LastBatch.batch_idx[j] + 1

====
